---- MODULE Spec2Model ----
(***************************************************************************)
(* A model of apollo5-reporting.py: the Streamlit page main(), the report  *)
(* pipeline generate_monthly_report(), the age parser preprocess_age() and *)
(* the table filter filter_dataframe().                                    *)
(*                                                                         *)
(* Text values whose characters the code inspects (ages, collection names, *)
(* collectionSite) are sequences of one-character strings.  A missing      *)
(* value (Python None, pandas NaN) is the one-element sequence Null.       *)
(* A call that can raise returns a record with a field "raised".           *)
(***************************************************************************)
EXTENDS Integers, Sequences, FiniteSets, TLC

VARIABLES
    pc,               \* position of main() within the current UI event
    event,            \* number of UI events (script runs) started so far
    username,         \* value of the "Username" text input
    password,         \* value of the "Password" text input
    generate_button,  \* TRUE when the event is a click on "Generate Report"
    status_code,      \* what nbia.getToken returned in this event
    collections,      \* the APOLLO-5 collection names still to be fetched from
    idx,              \* index of the next collection of the getStudy loop
    studies,          \* the accumulated studies table
    series_site_info, \* the table getAdvancedQCSearch returned
    calls,            \* the external nbia calls issued in this event, in order
    exc,              \* the exception that ended this event, or NoExc
    msgs,             \* what st.success/error/warning/write showed, in order
    report,           \* the value generate_monthly_report returned, or NoReport
    csv_written,      \* number of to_csv calls made in this event
    displayed,        \* TRUE once st.dataframe has shown the table
    arg,              \* argument of a function called on its own
    ret               \* its result, or NotCalled

vars == <<pc, event, username, password, generate_button, status_code,
          collections, idx, studies, series_site_info, calls, exc, msgs, report, csv_written, displayed,
          arg, ret>>

runVars == <<pc, event, username, password, generate_button, status_code,
             collections, idx, studies, series_site_info, calls, exc, msgs, report, csv_written,
             displayed>>

fnVars == <<arg, ret>>

-----------------------------------------------------------------------------
(* Values *)

Null == <<"<NA>">>

IsNull(v) == v = Null

NoneLiteral == <<"N", "o", "n", "e">>

Digit == {"0", "1", "2", "3", "4", "5", "6", "7", "8", "9"}

DigitValue(c) ==
    CASE c = "0" -> 0 [] c = "1" -> 1 [] c = "2" -> 2 [] c = "3" -> 3
      [] c = "4" -> 4 [] c = "5" -> 5 [] c = "6" -> 6 [] c = "7" -> 7
      [] c = "8" -> 8 [] c = "9" -> 9

Returned(v) == [raised |-> FALSE, value |-> v]

Raised(e) == [raised |-> TRUE, exc |-> e]

RECURSIVE SeqsUpTo(_, _)
SeqsUpTo(S, n) ==
    IF n = 0 THEN {<<>>}
    ELSE LET shorter == SeqsUpTo(S, n - 1)
         IN shorter \cup {Append(s, x) : s \in {t \in shorter : Len(t) = n - 1}, x \in S}

Range(s) == {s[i] : i \in 1..Len(s)}

-----------------------------------------------------------------------------
(* preprocess_age *)

\* str.rstrip('Y'): drop every trailing "Y".
RECURSIVE rstripY(_)
rstripY(s) ==
    IF Len(s) > 0 /\ s[Len(s)] = "Y" THEN rstripY(SubSeq(s, 1, Len(s) - 1)) ELSE s

\* The value of a string of decimal digits, most significant first.
RECURSIVE DecimalValue(_)
DecimalValue(s) ==
    IF Len(s) = 0 THEN 0
    ELSE 10 * DecimalValue(SubSeq(s, 1, Len(s) - 1)) + DigitValue(s[Len(s)])

\* int(s) on strings of digits and letters (no sign, blank or "_"):
\* a non-empty digit string gives its value, anything else ValueError.
PyInt(s) ==
    IF Len(s) > 0 /\ \A i \in 1..Len(s) : s[i] \in Digit
    THEN Returned([kind |-> "int", n |-> DecimalValue(s)])
    ELSE Raised("ValueError")

NoneValue == [kind |-> "none"]

preprocess_age_zero(age) ==
    IF IsNull(age) \/ age = NoneLiteral
    THEN Returned([kind |-> "int", n |-> 0])
    ELSE PyInt(rstripY(age))

preprocess_age(age) ==
    IF IsNull(age) \/ age = NoneLiteral
    THEN Returned(NoneValue)
    ELSE PyInt(rstripY(age))

-----------------------------------------------------------------------------
(* generate_monthly_report: the table computations *)

\* "APOLLO-5", the marker of line 94.
Marker == <<"A", "P", "O", "L", "L", "O", "-", "5">>

\* Python's `m in s` on strings: m occurs in s as a contiguous substring.
Contains(s, m) ==
    \E i \in 0..(Len(s) - Len(m)) : SubSeq(s, i + 1, i + Len(m)) = m

\* Lines 91-95: the names of the catalog that contain the marker, in order.
collectionSubset(catalog) ==
    SelectSeq(catalog, LAMBDA item : Contains(item, Marker))

\* Series.unique(): the distinct values in order of first appearance.
RECURSIVE Unique(_)
Unique(s) ==
    IF Len(s) = 0 THEN <<>>
    ELSE LET front == Unique(SubSeq(s, 1, Len(s) - 1))
         IN IF s[Len(s)] \in Range(front) THEN front ELSE Append(front, s[Len(s)])

Column(table, name) == [i \in 1..Len(table) |-> table[i][name]]

\* Lines 107-110: studies['PatientID'] of a table without rows (hence, built by
\* pd.concat of empty frames, without columns) raises KeyError.
patient_id_list(table) ==
    IF Len(table) = 0 THEN Raised("KeyError")
    ELSE Returned(Unique(Column(table, "PatientID")))

RECURSIVE SumSeq(_)
SumSeq(s) == IF Len(s) = 0 THEN 0 ELSE SumSeq(SubSeq(s, 1, Len(s) - 1)) + s[Len(s)]

\* A variant aggregate: the number of series instead of the sum of images.
image_counts_by_study_count(series_info, uid) ==
    LET rows == SelectSeq(series_info, LAMBDA r : r["Study UID"] = uid)
    IN IF Len(rows) = 0 THEN NoneValue
       ELSE [kind |-> "int", n |-> Len(rows)]

\* Lines 126-132 and the lookup the left merge of line 145 makes: the sum of
\* 'Number of images' over the rows of the group of uid; a uid with no group
\* has no row in image_counts_by_study, and the merge leaves it null.
image_counts_by_study(series_info, uid) ==
    LET rows == SelectSeq(series_info, LAMBDA r : r["Study UID"] = uid)
    IN IF Len(rows) = 0 THEN NoneValue
       ELSE [kind |-> "int", n |-> SumSeq(Column(rows, "Number of images"))]

\* Lines 117 and 135-136: rename 'study', keep the two columns.
site_columns(table) ==
    [i \in 1..Len(table) |->
        [StudyInstanceUID |-> table[i].study, collectionSite |-> table[i].collectionSite]]

\* A variant without deduplication.
drop_duplicates_none(table) == table

\* Line 139: drop_duplicates keeps the first of equal rows, in order.
drop_duplicates(table) == Unique(table)

RECURSIVE Flatten(_)
Flatten(ss) ==
    IF Len(ss) = 0 THEN <<>> ELSE Flatten(SubSeq(ss, 1, Len(ss) - 1)) \o ss[Len(ss)]

\* Line 142: pd.merge(how='left') on StudyInstanceUID. Every left row, in order,
\* once per matching right row (in the right table's order), or once with a
\* null collectionSite when nothing matches.
merge_site(left, right) ==
    Flatten([i \in 1..Len(left) |->
        LET m == SelectSeq(right,
                     LAMBDA r : r.StudyInstanceUID = left[i].StudyInstanceUID)
        IN IF Len(m) = 0
           THEN <<[study |-> left[i], collectionSite |-> Null]>>
           ELSE [j \in 1..Len(m) |->
                    [study |-> left[i], collectionSite |-> m[j].collectionSite]]])

\* str.split('//'): cut at each "//", scanning from the left.
RECURSIVE SplitFrom(_, _)
SplitFrom(s, i) ==
    IF i >= Len(s) THEN <<s>>
    ELSE IF s[i] = "/" /\ s[i + 1] = "/"
         THEN <<SubSeq(s, 1, i - 1)>> \o SplitFrom(SubSeq(s, i + 2, Len(s)), 1)
         ELSE SplitFrom(s, i + 1)

split(s) == SplitFrom(s, 1)

MaxOf(S) == CHOOSE m \in S : \A x \in S : x <= m

\* Line 151: .str.split('//', expand=True) gives as many columns as the longest
\* split has parts (a null cell counts as one part); shorter rows are padded
\* with None, null cells stay null.  Assigning it to the two columns
\* ['Collection', 'Site'] raises ValueError unless it has exactly two columns
\* (so it raises when no cell holds a "//", and when one holds two).
split_collectionSite(cells) ==
    LET parts == [i \in 1..Len(cells) |->
                    IF IsNull(cells[i]) THEN <<Null>> ELSE split(cells[i])]
        width == MaxOf({Len(parts[i]) : i \in 1..Len(cells)} \cup {0})
    IN IF width # 2 THEN Raised("ValueError")
       ELSE Returned([i \in 1..Len(cells) |->
                [Collection |-> parts[i][1],
                 Site |-> IF IsNull(cells[i]) \/ Len(parts[i]) < 2
                          THEN Null ELSE parts[i][2]]])

\* Lines 117-163 on the three fetched tables (studies has at least one row).
\* Columns the code only carries along or drops are left out of the rows.
apollo5_study_report(studies_table, site_table, series_table) ==
    LET sites  == drop_duplicates(site_columns(site_table))
        merged == merge_site(studies_table, sites)
        halves == split_collectionSite(Column(merged, "collectionSite"))
        ages   == [i \in 1..Len(merged) |-> preprocess_age(merged[i].study.PatientAge)]
    IN IF halves.raised THEN halves
       ELSE IF \E i \in 1..Len(merged) : ages[i].raised THEN Raised("ValueError")
       ELSE Returned([i \in 1..Len(merged) |->
                [PatientID          |-> merged[i].study.PatientID,
                 Collection         |-> halves.value[i].Collection,
                 Site               |-> halves.value[i].Site,
                 StudyInstanceUID   |-> merged[i].study.StudyInstanceUID,
                 ImageCount         |-> image_counts_by_study(series_table,
                                             merged[i].study.StudyInstanceUID),
                 PatientAge         |-> merged[i].study.PatientAge,
                 PatientAge_Numeric |-> ages[i].value]])

\* generate_monthly_report from line 107 on, given what the three fetches
\* returned.
report_of(studies_table, site_table, series_table) ==
    IF patient_id_list(studies_table).raised THEN patient_id_list(studies_table)
    ELSE apollo5_study_report(studies_table, site_table, series_table)

-----------------------------------------------------------------------------
(* filter_dataframe *)

\* Line 160, the canonical column order; every table main() shows has these.
new_order ==
    <<"PatientID", "Collection", "Site", "LongitudinalTemporalEventType",
      "LongitudinalTemporalOffsetFromEvent", "StudyDate", "StudyInstanceUID",
      "StudyDescription", "SeriesCount", "ImageCount", "PatientAge",
      "PatientAge_Numeric", "PatientSex", "EthnicGroup">>

\* What filter_dataframe hands back: the table, and for every column it
\* filtered the kind of predicate it chose for it (line 48, 55, 67 or 79).
Filtered(df, kinds) == Returned([table |-> df, kinds |-> kinds])

\* Lines 30-38, the loop over df.columns.  Its first statement evaluates the
\* name is_object_dtype, which nothing in the module binds (the imports are
\* lines 1-5, the definitions lines 7, 12, 88 and 171): the first iteration
\* raises NameError.  Without columns the loop body never runs.
normalize_datetimes(df) ==
    IF Len(df.columns) = 0 THEN Returned(df) ELSE Raised("NameError")

\* Lines 43-84, the loop over the columns picked in the multiselect.  The
\* first thing an iteration evaluates is the name is_categorical_dtype (line
\* 48, left operand of `or`), unbound as well: NameError, before any kind is
\* chosen or any predicate applied.
filter_columns(df, to_filter_columns) ==
    IF Len(to_filter_columns) = 0 THEN Filtered(df, {}) ELSE Raised("NameError")

\* Lines 22-86.  modify is the "Add filters" checkbox, to_filter_columns what
\* the viewer picks in "Filter dataframe on" (a sub-list of df.columns).
filter_dataframe(df, modify, to_filter_columns) ==
    IF ~modify THEN Filtered(df, {})
    ELSE LET n == normalize_datetimes(df)
         IN IF n.raised THEN n ELSE filter_columns(n.value, to_filter_columns)

-----------------------------------------------------------------------------
(* Bounds and the values the environment may supply *)

MaxEvents == 2      \* UI events (script runs) per behaviour
MaxCatalog == 2     \* entries of the catalog nbia.getCollections returns
MaxInventory == 1   \* rows nbia.getStudy returns for one collection
MaxSearch == 1      \* rows nbia.getAdvancedQCSearch returns
MaxSeriesRows == 1  \* rows nbia.getSeriesList returns

Apollo5A == <<"A", "P", "O", "L", "L", "O", "-", "5", "-", "A">>
XApollo5 == <<"X", "-", "A", "P", "O", "L", "L", "O", "-", "5">>
Apollo4  == <<"A", "P", "O", "L", "L", "O", "-", "4">>

CollectionNames == {Apollo5A, XApollo5, Apollo4}

Catalogs == SeqsUpTo(CollectionNames, MaxCatalog)

Age045Y == <<"0", "4", "5", "Y">>
Age6M   == <<"6", "M">>
SiteCX  == <<"C", "/", "/", "X">>
SiteCY  == <<"C", "/", "/", "Y">>
SiteBare == <<"C", "X">>
SiteThree == <<"C", "/", "/", "X", "/", "/", "Z">>

StudyRow(p, u, a) == [PatientID |-> p, StudyInstanceUID |-> u, PatientAge |-> a]

SearchRow(u, e, cs) == [study |-> u, series |-> e, collectionSite |-> cs]

SeriesRow(u, n) == [k \in {"Study UID", "Number of images"} |->
                        IF k = "Study UID" THEN u ELSE n]

RunStudyRows == {StudyRow("P1", "S1", Age045Y), StudyRow("P2", "S2", Null)}

RunSearchRows == {SearchRow("S1", "E1", SiteCX), SearchRow("S2", "E2", SiteBare)}

RunSeriesRows == {SeriesRow("S1", 3), SeriesRow("S2", 4)}

Inventories == SeqsUpTo(RunStudyRows, MaxInventory)

SearchResults == SeqsUpTo(RunSearchRows, MaxSearch)

SeriesResults == SeqsUpTo(RunSeriesRows, MaxSeriesRows)

\* nbia.getToken's return values: 200 is success.
StatusOK == 200
StatusCodes == {200, 401}

Credentials == {"", "user"}

NoExc == [kind |-> "none", at |-> 0]
NoReport == [returned |-> FALSE]
NoStatus == <<>>
NotUsed == "not used"
NotCalled == [called |-> FALSE]

-----------------------------------------------------------------------------
(* main(): one script run per UI event *)

MsgWarning    == "warning: Please enter your username and password."
MsgLoginOK    == "success: Login successful!"
MsgLoginFail  == "error: Login failed. Please check your credentials."
MsgError      == "error: An error occurred"
MsgAnalyzed   == "write: APOLLO-5 collections are being analyzed."
MsgReportOK   == "success: Monthly Report generated successfully!"

Call(fn, a) == [fn |-> fn, arg |-> a]

FetchNames == {"getCollections", "getStudy", "getAdvancedQCSearch", "getSeriesList"}

InitIdle ==
    /\ pc = "idle"
    /\ event = 0
    /\ username = ""
    /\ password = ""
    /\ generate_button = FALSE
    /\ status_code = NoStatus
    /\ collections = <<>>
    /\ idx = 1
    /\ studies = <<>>
    /\ series_site_info = <<>>
    /\ calls = <<>>
    /\ exc = NoExc
    /\ msgs = <<>>
    /\ report = NoReport
    /\ csv_written = 0
    /\ displayed = FALSE

\* A variant handler that issues the failed call once more.
except_Exception_retry(kind, issued) ==
    /\ exc' = [kind |-> kind, at |-> Len(issued)]
    /\ calls' = IF kind = "FetchError" THEN Append(issued, issued[Len(issued)]) ELSE issued
    /\ msgs' = Append(msgs, MsgError)
    /\ pc' = "done"

\* Lines 264-265: an exception raised anywhere below line 193 unwinds to the
\* handler of main(), which shows one st.error and ends the script run.
\* issued is the list of calls made so far, the raising one last.
except_Exception(kind, issued) ==
    /\ exc' = [kind |-> kind, at |-> Len(issued)]
    /\ calls' = issued
    /\ msgs' = Append(msgs, MsgError)
    /\ pc' = "done"

\* Lines 171-192 and 266-267: a script run starts with the widget values of
\* the event; nothing of an earlier run is kept.
Rerun(u, p, clicked) ==
    /\ pc \in {"idle", "done"}
    /\ event < MaxEvents
    /\ event' = event + 1
    /\ username' = u
    /\ password' = p
    /\ generate_button' = clicked
    /\ status_code' = NoStatus
    /\ collections' = <<>>
    /\ idx' = 1
    /\ studies' = <<>>
    /\ series_site_info' = <<>>
    /\ calls' = <<>>
    /\ exc' = NoExc
    /\ report' = NoReport
    /\ csv_written' = 0
    /\ displayed' = FALSE
    /\ IF ~clicked
       THEN pc' = "done" /\ msgs' = <<>>
       ELSE IF u # "" /\ p # ""
            THEN pc' = "getToken" /\ msgs' = <<>>
            ELSE pc' = "done" /\ msgs' = <<MsgWarning>>
    /\ UNCHANGED fnVars

\* A variant status test: any returned status counts as a login.
login_ok_any(code) == TRUE

\* Line 195.
login_ok(code) == code = StatusOK

\* Lines 194-196 and 262-263.
GetToken ==
    /\ pc = "getToken"
    /\ LET issued == Append(calls, Call("getToken", <<username, password>>))
       IN \/ /\ except_Exception("AuthError", issued)
             /\ UNCHANGED status_code
          \/ \E code \in StatusCodes :
                /\ status_code' = <<code>>
                /\ calls' = issued
                /\ exc' = exc
                /\ IF login_ok(code)
                   THEN msgs' = Append(msgs, MsgLoginOK) /\ pc' = "getCollections"
                   ELSE msgs' = Append(msgs, MsgLoginFail) /\ pc' = "done"
    /\ UNCHANGED <<event, username, password, generate_button, collections, idx, studies,
                   series_site_info, report, csv_written, displayed>>
    /\ UNCHANGED fnVars

\* Lines 90-110 when the loop of line 102 has nothing (more) to fetch: the
\* patient list is taken from the studies table, which raises on an empty one.
AfterStudies(table, issued, shown) ==
    IF patient_id_list(table).raised
    THEN /\ exc' = [kind |-> patient_id_list(table).exc, at |-> 0]
         /\ calls' = issued
         /\ msgs' = Append(shown, MsgError)
         /\ pc' = "done"
    ELSE /\ exc' = exc
         /\ calls' = issued
         /\ msgs' = shown
         /\ pc' = "getAdvancedQCSearch"

\* Lines 90-102.
GetCollections ==
    /\ pc = "getCollections"
    /\ LET issued == Append(calls, Call("getCollections", <<>>))
       IN \/ /\ except_Exception("FetchError", issued)
             /\ UNCHANGED <<collections, idx>>
          \/ \E catalog \in Catalogs :
                LET subset == collectionSubset(catalog)
                    shown  == Append(msgs, MsgAnalyzed)
                IN /\ collections' = subset
                   /\ idx' = 1
                   /\ IF Len(subset) = 0
                      THEN AfterStudies(studies, issued, shown)
                      ELSE /\ pc' = "getStudy"
                           /\ calls' = issued
                           /\ msgs' = shown
                           /\ exc' = exc
    /\ UNCHANGED <<event, username, password, generate_button, status_code, studies,
                   series_site_info, report, csv_written, displayed>>
    /\ UNCHANGED fnVars

\* Lines 102-110: one iteration of the loop, and what follows the last one.
GetStudy ==
    /\ pc = "getStudy"
    /\ LET issued == Append(calls, Call("getStudy", collections[idx]))
       IN \/ /\ except_Exception("FetchError", issued)
             /\ UNCHANGED <<studies, idx>>
          \/ \E studyDescription \in Inventories :
                LET table == studies \o studyDescription
                IN /\ studies' = table
                   /\ IF idx < Len(collections)
                      THEN /\ idx' = idx + 1
                           /\ pc' = "getStudy"
                           /\ calls' = issued
                           /\ UNCHANGED <<msgs, exc>>
                      ELSE /\ idx' = idx
                           /\ AfterStudies(table, issued, msgs)
    /\ UNCHANGED <<event, username, password, generate_button, status_code, collections,
                   series_site_info, report, csv_written, displayed>>
    /\ UNCHANGED fnVars

\* Lines 113-120.
GetAdvancedQCSearch ==
    /\ pc = "getAdvancedQCSearch"
    /\ LET issued == Append(calls,
                        Call("getAdvancedQCSearch", patient_id_list(studies).value))
       IN \/ /\ except_Exception("FetchError", issued)
             /\ UNCHANGED series_site_info
          \/ \E found \in SearchResults :
                /\ series_site_info' = found
                /\ calls' = issued
                /\ pc' = "getSeriesList"
                /\ UNCHANGED <<msgs, exc>>
    /\ UNCHANGED <<event, username, password, generate_button, status_code, collections, idx,
                   studies, report, csv_written, displayed>>
    /\ UNCHANGED fnVars

\* Lines 120-169 and 200-202: the last fetch, the joins and derivations, the
\* CSV and the return to main().
GetSeriesList ==
    /\ pc = "getSeriesList"
    /\ LET issued == Append(calls,
                        Call("getSeriesList", Column(series_site_info, "series")))
       IN \/ /\ except_Exception("FetchError", issued)
             /\ UNCHANGED <<report, csv_written>>
          \/ \E series_info \in SeriesResults :
                LET table == apollo5_study_report(studies, series_site_info, series_info)
                IN IF table.raised
                   THEN /\ exc' = [kind |-> table.exc, at |-> 0]
                        /\ calls' = issued
                        /\ msgs' = Append(msgs, MsgError)
                        /\ pc' = "done"
                        /\ UNCHANGED <<report, csv_written>>
                   ELSE /\ report' = [returned |-> TRUE, rows |-> table.value]
                        /\ csv_written' = csv_written + 1
                        /\ calls' = issued
                        /\ msgs' = Append(msgs, MsgReportOK)
                        /\ pc' = "display"
                        /\ exc' = exc
    /\ UNCHANGED <<event, username, password, generate_button, status_code, collections, idx,
                   studies, series_site_info, displayed>>
    /\ UNCHANGED fnVars

\* Lines 204-260: the table goes through filter_dataframe to st.dataframe;
\* modify is what the "Add filters" checkbox returns in this script run.
Display ==
    /\ pc = "display"
    /\ \E modify \in BOOLEAN :
          LET df == [columns |-> new_order, rows |-> report.rows]
              shown == filter_dataframe(df, modify, <<>>)
          IN IF shown.raised
             THEN /\ exc' = [kind |-> shown.exc, at |-> 0]
                  /\ msgs' = Append(msgs, MsgError)
                  /\ displayed' = FALSE
             ELSE /\ displayed' = TRUE
                  /\ UNCHANGED <<exc, msgs>>
    /\ pc' = "done"
    /\ UNCHANGED <<event, username, password, generate_button, status_code, collections, idx,
                   studies, series_site_info, calls, report, csv_written>>
    /\ UNCHANGED fnVars

Init == InitIdle /\ arg = NotUsed /\ ret = NotCalled

Next ==
    \/ \E u \in Credentials, p \in Credentials, b \in BOOLEAN : Rerun(u, p, b)
    \/ GetToken
    \/ GetCollections
    \/ GetStudy
    \/ GetAdvancedQCSearch
    \/ GetSeriesList
    \/ Display

Spec == Init /\ [][Next]_vars

-----------------------------------------------------------------------------
(* The functions on their own: the argument is drawn, then the call made *)

MaxAgeLen == 4      \* characters of a PatientAge string
MaxStudies == 2     \* rows of the studies table
MaxSites == 2       \* rows of the advanced-search result
MaxSeries == 2      \* rows of the series metadata
MaxFilterRows == 1  \* rows of a table given to filter_dataframe

AgeAlphabet == {"0", "4", "5", "Y", "M"}

AgeInputs == {Null, NoneLiteral} \cup SeqsUpTo(AgeAlphabet, MaxAgeLen)

ReportStudyRows ==
    {StudyRow("P1", "S1", Age045Y), StudyRow("P1", "S2", Null), StudyRow("P2", "S2", Age6M)}

ReportSearchRows ==
    {SearchRow("S1", "E1", SiteCX), SearchRow("S1", "E2", SiteCX),
     SearchRow("S1", "E3", SiteCY), SearchRow("S2", "E4", SiteCY),
     SearchRow("S2", "E5", SiteBare), SearchRow("S2", "E6", Null),
     SearchRow("S2", "E7", SiteThree)}

ReportSeriesRows == {SeriesRow("S1", 1), SeriesRow("S1", 2), SeriesRow("S2", 2)}

ReportInputs ==
    [studies : SeqsUpTo(ReportStudyRows, MaxStudies),
     series_site_info : SeqsUpTo(ReportSearchRows, MaxSites),
     series_info : SeqsUpTo(ReportSeriesRows, MaxSeries)]

Result(out) == [called |-> TRUE, out |-> out]

\* preprocess_age(arg)
InitAge == InitIdle /\ arg \in AgeInputs /\ ret = NotCalled

CallPreprocessAge ==
    /\ ret = NotCalled
    /\ ret' = Result(preprocess_age(arg))
    /\ UNCHANGED <<arg, runVars>>

SpecAge == InitAge /\ [][CallPreprocessAge]_vars

\* generate_monthly_report() from line 107 on, on the tables of arg
InitReport == InitIdle /\ arg \in ReportInputs /\ ret = NotCalled

CallReport ==
    /\ ret = NotCalled
    /\ ret' = Result(report_of(arg.studies, arg.series_site_info, arg.series_info))
    /\ UNCHANGED <<arg, runVars>>

SpecReport == InitReport /\ [][CallReport]_vars

\* filter_dataframe(arg.df) with the widget values of arg
ColumnLists == {<<>>, <<"A">>, <<"A", "B">>}

Dtypes == {"category", "float64", "datetime64[ns]", "object"}

NullCell == [t |-> "null", v |-> 0]
Cells == {NullCell, [t |-> "value", v |-> 1], [t |-> "value", v |-> 2]}

SubLists(cols) == {s \in SeqsUpTo(Range(cols), Len(cols)) :
                      \A i, j \in 1..Len(s) : i # j => s[i] # s[j]}

FilterInputs ==
    UNION {
      [df : [columns : {cols},
             dtype : [Range(cols) -> Dtypes],
             rows : SeqsUpTo([Range(cols) -> Cells], MaxFilterRows)],
       modify : BOOLEAN,
       to_filter_columns : SubLists(cols)] : cols \in ColumnLists}

InitFilter == InitIdle /\ arg \in FilterInputs /\ ret = NotCalled

CallFilter ==
    /\ ret = NotCalled
    /\ ret' = Result(filter_dataframe(arg.df, arg.modify, arg.to_filter_columns))
    /\ UNCHANGED <<arg, runVars>>

SpecFilter == InitFilter /\ [][CallFilter]_vars

-----------------------------------------------------------------------------
(* Properties of the report pipeline, under SpecReport *)

ReportReturned == ret.called /\ ~ret.out.raised

ReportRows == ret.out.value

RowsOfStudy(rows, u) == {j \in 1..Len(rows) : rows[j].StudyInstanceUID = u}

\* The distinct collectionSite values (null included) the search result holds
\* for study u.
SitesOf(found, u) ==
    {found[i].collectionSite : i \in {k \in 1..Len(found) : found[k].study = u}}

Fanout(found, u) ==
    IF SitesOf(found, u) = {} THEN 1 ELSE Cardinality(SitesOf(found, u))

\* C1 as amended: whenever generate_monthly_report returns a table, every
\* study row appears in it once per distinct collectionSite value the search
\* result holds for its StudyInstanceUID, and once when it holds none; no study
\* row is dropped, duplicate (StudyInstanceUID, collectionSite) rows of the
\* search result count once, and when no StudyInstanceUID has two distinct
\* collectionSite values the table has exactly one row per study row, in order.
C1_RowsPerStudy ==
    ReportReturned =>
        /\ \A u \in Range(Column(arg.studies, "StudyInstanceUID")) :
              Cardinality(RowsOfStudy(ReportRows, u))
                = Cardinality(RowsOfStudy(arg.studies, u)) * Fanout(arg.series_site_info, u)
        /\ (\A u \in Range(Column(arg.studies, "StudyInstanceUID")) :
               Fanout(arg.series_site_info, u) = 1)
           => Column(ReportRows, "StudyInstanceUID")
                = Column(arg.studies, "StudyInstanceUID")

\* C1 as stated: the returned table has exactly one row per study row, for
\* every search result.
C1_OneRowPerStudy ==
    ReportReturned => Len(ReportRows) = Len(arg.studies)

\* A search result with two rows of the same (study, collectionSite) pair from
\* different series, joined to two studies: two rows come back.
C1_Witness ==
    /\ ReportReturned
    /\ Len(arg.studies) = 2
    /\ Len(arg.series_site_info) = 2
    /\ arg.series_site_info[1].series # arg.series_site_info[2].series
    /\ arg.series_site_info[1].study = arg.series_site_info[2].study
    /\ arg.series_site_info[1].collectionSite = arg.series_site_info[2].collectionSite
    /\ arg.studies[1].StudyInstanceUID = arg.series_site_info[1].study
    /\ Len(ReportRows) = 2

RECURSIVE SumImages(_, _)
SumImages(series, I) ==
    IF I = {} THEN 0
    ELSE LET i == CHOOSE k \in I : TRUE
         IN series[i]["Number of images"] + SumImages(series, I \ {i})

SeriesOfStudy(series, u) == {i \in 1..Len(series) : series[i]["Study UID"] = u}

\* C2: in the returned table every row's ImageCount is the sum of 'Number of
\* images' over the series records whose 'Study UID' is the row's
\* StudyInstanceUID, and null when there is no such record.
C2_ImageCountIsSum ==
    ReportReturned =>
        \A j \in 1..Len(ReportRows) :
            LET I == SeriesOfStudy(arg.series_info, ReportRows[j].StudyInstanceUID)
            IN ReportRows[j].ImageCount =
                 IF I = {} THEN NoneValue
                 ELSE [kind |-> "int", n |-> SumImages(arg.series_info, I)]

\* One study with two series of 1 and 2 images, another without series.
C2_Witness ==
    /\ ReportReturned
    /\ Len(arg.series_info) = 2
    /\ \E j, k \in 1..Len(ReportRows) :
          /\ ReportRows[j].ImageCount = [kind |-> "int", n |-> 3]
          /\ ReportRows[k].ImageCount = NoneValue

DigitsThenY(a) ==
    /\ Len(a) >= 2
    /\ a[Len(a)] = "Y"
    /\ \A i \in 1..(Len(a) - 1) : a[i] \in Digit

AgeWellFormed(a) == IsNull(a) \/ a = NoneLiteral \/ DigitsThenY(a)

TwoParts(cs) == ~IsNull(cs) /\ Len(split(cs)) = 2

\* C7: on a studies table with rows, malformed data never makes the report
\* raise: every study row is kept, a row whose PatientAge is not digits plus
\* 'Y' has a null PatientAge_Numeric, and a row whose study has no collectionSite
\* that splits into exactly two parts has null Collection and Site.
C7_MalformedDegradesToNull ==
    (ret.called /\ Len(arg.studies) > 0) =>
        /\ ~ret.out.raised
        /\ Len(ReportRows) >= Len(arg.studies)
        /\ \A j \in 1..Len(ReportRows) :
              /\ ~AgeWellFormed(ReportRows[j].PatientAge)
                    => ReportRows[j].PatientAge_Numeric = NoneValue
              /\ (\A cs \in SitesOf(arg.series_site_info, ReportRows[j].StudyInstanceUID) :
                      ~TwoParts(cs))
                    => (ReportRows[j].Collection = Null /\ ReportRows[j].Site = Null)

-----------------------------------------------------------------------------
(* Properties of preprocess_age, under SpecAge *)

\* C6: preprocess_age maps digits followed by 'Y' to the number the digits
\* denote ("045Y" to 45), and a null value or the text "None" to None; on
\* these arguments it does not raise and does not put 0 for an absent age.
C6_AgeParsed ==
    ret.called =>
        /\ (IsNull(arg) \/ arg = NoneLiteral) => ret.out = Returned(NoneValue)
        /\ DigitsThenY(arg) =>
              /\ ~ret.out.raised
              /\ ret.out.value.kind = "int"
              /\ ret.out.value.n = DecimalValue(SubSeq(arg, 1, Len(arg) - 1))
        /\ arg = Age045Y => ret.out = Returned([kind |-> "int", n |-> 45])

C6_Witness ==
    /\ ret.called
    /\ arg = Age045Y
    /\ ret.out.value.n = 45

-----------------------------------------------------------------------------
(* Properties of filter_dataframe, under SpecFilter *)

\* Line 48: fewer distinct values than this make a column categorical.
CategoricalBelow == 10

nunique(df, c) ==
    Cardinality({df.rows[i][c] : i \in 1..Len(df.rows)} \ {NullCell})

\* The kind the precedence order gives column c.
KindByPrecedence(df, c) ==
    IF df.dtype[c] = "category" \/ nunique(df, c) < CategoricalBelow THEN "categorical"
    ELSE IF df.dtype[c] = "float64" THEN "numeric"
    ELSE IF df.dtype[c] = "datetime64[ns]" THEN "temporal"
    ELSE "text"

Filtering == ret.called /\ arg.modify /\ Len(arg.to_filter_columns) > 0

\* C8: filtering columns with the default selections (every distinct value of
\* a categorical column, the column's own minimum and maximum of a numeric
\* one) returns the rows of the table unchanged, null cells included.
C8_DefaultFilterIsIdentity ==
    Filtering =>
        /\ ~ret.out.raised
        /\ ret.out.value.table.rows = arg.df.rows

\* C9: filter_dataframe returns a table and never raises, whatever the table,
\* the columns picked and the widget values.
C9_FilterIsTotal ==
    ret.called => ~ret.out.raised

\* C10: every picked column is classified into exactly one kind, the first of
\* categorical, numeric, temporal, text that applies to it.
C10_KindByPrecedence ==
    Filtering =>
        /\ ~ret.out.raised
        /\ ret.out.value.kinds =
              {<<c, KindByPrecedence(arg.df, c)>> : c \in Range(arg.to_filter_columns)}

-----------------------------------------------------------------------------
(* Properties of a script run, under Spec *)

FetchesIssued == {i \in 1..Len(calls) : calls[i].fn \in FetchNames}

ErrorsShown == {i \in 1..Len(msgs) : msgs[i] = MsgError}

\* C3: when a fetch raises, the run is over: the failed call is the last call
\* issued (no later fetch, no second attempt), no CSV is written, no table is
\* returned or displayed, and exactly one error message is shown, last.
C3_FetchFailureAborts ==
    exc.kind = "FetchError" =>
        /\ pc = "done"
        /\ exc.at = Len(calls)
        /\ calls[Len(calls)].fn \in FetchNames
        /\ csv_written = 0
        /\ report = NoReport
        /\ ~displayed
        /\ Cardinality(ErrorsShown) = 1
        /\ msgs[Len(msgs)] = MsgError

\* The last fetch of a run fails after all the others succeeded.
C3_Witness ==
    /\ exc.kind = "FetchError"
    /\ calls[Len(calls)].fn = "getSeriesList"
    /\ Len(studies) > 0

\* C4: a fetch, a CSV or a report exists only in an event whose getToken
\* returned 200 with both credentials given; an event that clicked the button
\* without that ends with no fetch, no CSV, and a warning or error as its last
\* message.
C4_NoReportWithoutLogin ==
    /\ (FetchesIssued # {} \/ csv_written > 0 \/ report # NoReport \/ displayed)
          => (status_code = <<StatusOK>> /\ username # "" /\ password # "")
    /\ (pc = "done" /\ generate_button /\ status_code # <<StatusOK>>)
          => /\ FetchesIssued = {}
             /\ csv_written = 0
             /\ Len(msgs) > 0
             /\ msgs[Len(msgs)] \in {MsgWarning, MsgLoginFail, MsgError}

\* A second event whose login is refused.
C4_Witness ==
    /\ pc = "done"
    /\ event = 2
    /\ generate_button
    /\ status_code = <<401>>
    /\ msgs = <<MsgLoginFail>>
    /\ FetchesIssued = {}

\* C5: when getCollections succeeds and no name contains the marker, the
\* report is generated without error and has no rows.
C5_EmptySubsetEmptyReport ==
    (/\ Len(calls) > 0
     /\ calls[Len(calls)].fn = "getCollections"
     /\ exc.kind # "FetchError"
     /\ Len(collections) = 0)
        => (exc = NoExc /\ report = [returned |-> TRUE, rows |-> <<>>])

====
